---- MODULE Spec2Model ----
(***************************************************************************)
(* A model of validator.py: TypeValidator and ValidationResult.           *)
(*                                                                         *)
(* Strings are sequences of one-character strings, so that the two regular *)
(* expressions of the validator (the tokenizer pattern of __init__ and the *)
(* substitution pattern of validate_names) are modelled character by       *)
(* character.  The namespace resolver (safelib) and Python's eval are the  *)
(* environment: the resolver answers each name with any answer its         *)
(* interface allows, eval ends in any of the ways an evaluation can end.   *)
(***************************************************************************)
EXTENDS Integers, Sequences, FiniteSets, TLC

\* ------------------------------------------------------------ characters

Quote == "\""
Apos == "'"
Backslash == "\\"
Dot == "."
Newline == "\n"

Letters ==
    {"a","b","c","d","e","f","g","h","i","j","k","l","m",
     "n","o","p","q","r","s","t","u","v","w","x","y","z",
     "A","B","C","D","E","F","G","H","I","J","K","L","M",
     "N","O","P","Q","R","S","T","U","V","W","X","Y","Z"}

Digits == {"0","1","2","3","4","5","6","7","8","9"}

\* \w of the patterns
IsWord(c) == c \in Letters \cup Digits \cup {"_"}

\* [a-zA-Z_], the first character of an identifier
IsIdentStart(c) == c \in Letters \cup {"_"}

\* [bfr], the literal prefixes of the tokenizer pattern
IsPrefix(c) == c \in {"b", "f", "r"}

\* the character at position i (1-based), or the empty string outside s
At(s, i) == IF i >= 1 /\ i <= Len(s) THEN s[i] ELSE ""

\* ------------------------------------------------------------ namespaces

Builtins == <<"b","u","i","l","t","i","n","s">>
Typing == <<"t","y","p","i","n","g">>
TypingExtensions ==
    <<"t","y","p","i","n","g","_","e","x","t","e","n","s","i","o","n","s">>

BUILTIN_NAMESPACES == <<Builtins, Typing, TypingExtensions>>

Namespaces == {BUILTIN_NAMESPACES[k] : k \in 1..Len(BUILTIN_NAMESPACES)}

\* ------------------------------------------------------------ tokenizer
\* self.pattern: [bfr]*(?:""".*?"""|'''.*?'''|"(?:[^"\\]|\\.)*"|'(?:[^'\\]|\\.)*')
\*               |(?<!\w)(?<!\.)([a-zA-Z_][a-zA-Z0-9_]*)(?!\.)(?!\w)
\* Every XxxAt operator returns the position after the match, 0 for no match.

\* [bfr]* is greedy; the quote that must follow cannot be one of b, f, r, so
\* only the longest run can lead to a match
RECURSIVE SkipPrefix(_, _)
SkipPrefix(s, i) ==
    IF i <= Len(s) /\ IsPrefix(s[i]) THEN SkipPrefix(s, i + 1) ELSE i

IsTriple(s, i, q) == At(s, i) = q /\ At(s, i + 1) = q /\ At(s, i + 2) = q

\* .*?""" from position j: the first closing triple, no newline before it
RECURSIVE TripleClose(_, _, _)
TripleClose(s, j, q) ==
    IF j + 2 > Len(s) THEN 0
    ELSE IF IsTriple(s, j, q) THEN j + 3
    ELSE IF s[j] = Newline THEN 0
    ELSE TripleClose(s, j + 1, q)

\* (?:[^q\\]|\\.)*q from position j: a backslash takes the next character
\* with it (any but a newline), the first quote left over closes
RECURSIVE QuotedClose(_, _, _)
QuotedClose(s, j, q) ==
    IF j > Len(s) THEN 0
    ELSE IF s[j] = q THEN j + 1
    ELSE IF s[j] = Backslash
         THEN IF j + 1 <= Len(s) /\ s[j + 1] # Newline
              THEN QuotedClose(s, j + 2, q)
              ELSE 0
    ELSE QuotedClose(s, j + 1, q)

\* the first alternative of the pattern: a quoted literal with its prefix
LiteralAt(s, i) ==
    LET p == SkipPrefix(s, i)
        t1 == IF IsTriple(s, p, Quote) THEN TripleClose(s, p + 3, Quote) ELSE 0
        t2 == IF IsTriple(s, p, Apos) THEN TripleClose(s, p + 3, Apos) ELSE 0
        d1 == IF At(s, p) = Quote THEN QuotedClose(s, p + 1, Quote) ELSE 0
        d2 == IF At(s, p) = Apos THEN QuotedClose(s, p + 1, Apos) ELSE 0
    IN  IF t1 # 0 THEN t1
        ELSE IF t2 # 0 THEN t2
        ELSE IF d1 # 0 THEN d1
        ELSE d2

\* [a-zA-Z0-9_]* from position i
RECURSIVE WordEnd(_, _)
WordEnd(s, i) ==
    IF i <= Len(s) /\ IsWord(s[i]) THEN WordEnd(s, i + 1) ELSE i

\* an identifier in the tokenizer's sense but for what follows it
NameAt(s, i) ==
    IF /\ i <= Len(s)
       /\ IsIdentStart(s[i])
       /\ ~IsWord(At(s, i - 1))
       /\ At(s, i - 1) # Dot
    THEN WordEnd(s, i)
    ELSE 0

IdentAtNoLookahead(s, i) == NameAt(s, i)

\* the second alternative: an identifier not preceded by a word character or
\* a dot, and not followed by a dot or a word character
IdentAt(s, i) ==
    IF /\ i <= Len(s)
       /\ IsIdentStart(s[i])
       /\ ~IsWord(At(s, i - 1))
       /\ At(s, i - 1) # Dot
    THEN LET e == WordEnd(s, i) IN IF At(s, e) = Dot THEN 0 ELSE e
    ELSE 0

\* pattern.findall: the matches from left to right, each giving its group 1,
\* which is empty for a literal
RECURSIVE FindAll(_, _)
FindAll(s, i) ==
    IF i > Len(s) THEN <<>>
    ELSE LET l == LiteralAt(s, i) IN
         IF l # 0 THEN <<(<<>>)>> \o FindAll(s, l)
         ELSE LET e == IdentAt(s, i) IN
              IF e # 0 THEN <<SubSeq(s, i, e - 1)>> \o FindAll(s, e)
              ELSE FindAll(s, i + 1)

\* find_names(annotation): an empty (or absent) argument falls back to
\* self.annotation
find_names(self_annotation, annotation) ==
    FindAll(IF annotation # <<>> THEN annotation ELSE self_annotation, 1)

\* list.pop(i), i counted from 1 here
Pop(names, i) == SubSeq(names, 1, i - 1) \o SubSeq(names, i + 1, Len(names))

RECURSIVE SeperateLoopDropRest(_, _, _, _)
SeperateLoopDropRest(ann, names, seperated, i) ==
    IF i > Len(names) THEN seperated
    ELSE LET sub_names == find_names(ann, names[i]) IN
         IF Len(sub_names) > 1
         THEN SeperateLoopDropRest(ann, Pop(names, i), seperated \o sub_names, i + 1)
         ELSE SeperateLoopDropRest(ann, names, seperated, i + 1)

\* the loop of seperate_names and the extend after it: enumerate(names) reads
\* names[i] while i is inside the list as it is now, so a pop moves the
\* following token under the index that has just been used
RECURSIVE SeperateLoop(_, _, _, _)
SeperateLoop(ann, names, seperated, i) ==
    IF i > Len(names) THEN seperated \o names
    ELSE LET sub_names == find_names(ann, names[i]) IN
         IF Len(sub_names) > 1
         THEN SeperateLoop(ann, Pop(names, i), seperated \o sub_names, i + 1)
         ELSE SeperateLoop(ann, names, seperated, i + 1)

\* only(iter), as the set the list is built from
only(iter) == {iter[k] : k \in 1..Len(iter)} \ {<<>>}

\* seperate_names(), as a set: the order of list(set(...)) is not fixed
seperate_names(ann) == only(SeperateLoop(ann, find_names(ann, <<>>), <<>>, 1))

\* ------------------------------------------------------------ rewriter

\* rf"(?<!\.)(?<!\w){re.escape(type_)}\b" at position i of s
SubMatchAt(s, i, type_) ==
    LET e == i + Len(type_) IN
    /\ e - 1 <= Len(s)
    /\ SubSeq(s, i, e - 1) = type_
    /\ At(s, i - 1) # Dot
    /\ ~IsWord(At(s, i - 1))
    /\ IsWord(At(s, e - 1)) # IsWord(At(s, e))

\* re.sub(pattern, entity_repr, s): the matches from left to right, none
\* overlapping, the lookbehinds reading the string as it was
RECURSIVE ReSubFrom(_, _, _, _)
ReSubFrom(s, i, type_, entity_repr) ==
    IF i > Len(s) THEN <<>>
    ELSE IF SubMatchAt(s, i, type_)
         THEN entity_repr \o ReSubFrom(s, i + Len(type_), type_, entity_repr)
         ELSE <<s[i]>> \o ReSubFrom(s, i + 1, type_, entity_repr)

\* ------------------------------------------------------------ resolver
\* importer.get_entity(type_) with safelib.valid, and
\* safelib.get_entity_info(type_): two lookups, each answered by the
\* resolver.  An answer is [valid, found, origin]: valid is
\* safelib.valid(entity); found is the truth value of the entity info;
\* origin is its first component, empty or a namespace.

NoInfo == [found |-> FALSE, origin |-> <<>>]

EntityInfos ==
    {NoInfo} \cup {[found |-> TRUE, origin |-> o] : o \in {<<>>} \cup Namespaces}

Answers == {[valid |-> v, info |-> e] : v \in BOOLEAN, e \in EntityInfos}

\* if not safelib.valid(entity): invalid_names.insert(0, type_)
InsertInvalidFirstOnly(invalid_names, type_, valid) ==
    IF valid \/ invalid_names # <<>> THEN invalid_names ELSE <<type_>>

InsertInvalid(invalid_names, type_, valid) ==
    IF valid THEN invalid_names ELSE <<type_>> \o invalid_names

\* '"." in type_ and type_ in BUILTIN_NAMESPACES': the iteration is skipped
SkipsName(type_) ==
    /\ \E k \in 1..Len(type_) : type_[k] = Dot
    /\ type_ \in Namespaces

\* entity_repr of one iteration
EntityRepr(type_, info) ==
    IF info.origin # <<>> THEN info.origin \o <<Dot>> \o type_ ELSE type_

\* self.validated_type after one iteration of the loop over all_types
Rewrite(validated, type_, info) ==
    IF SkipsName(type_) \/ ~info.found
    THEN validated
    ELSE ReSubFrom(validated, 1, type_, EntityRepr(type_, info))

\* type_map after one iteration
MapName(tmap, type_, info) ==
    IF SkipsName(type_) \/ ~info.found
    THEN tmap
    ELSE [n \in DOMAIN tmap \cup {type_} |->
            IF n = type_ THEN info.origin ELSE tmap[n]]

\* ------------------------------------------------------------ evaluator
\* eval(self.validated_type, {"typing": ..., "typing_extensions": ...,
\* "builtins": ...}) inside try / except Exception.

\* the keys of the globals dictionary written in the call
GlobalsKeys == {Typing, TypingExtensions, Builtins}

\* the names the expression loads by name (not as an attribute): the
\* identifiers outside quoted literals that no dot precedes.  eval looks each
\* of them up in the globals and then in the built-in scope, which eval adds
\* to a globals dictionary that has no __builtins__ key
RECURSIVE LoadNamesFrom(_, _)
LoadNamesFrom(s, i) ==
    IF i > Len(s) THEN {}
    ELSE LET l == LiteralAt(s, i) IN
         IF l # 0 THEN LoadNamesFrom(s, l)
         ELSE LET e == NameAt(s, i) IN
              IF e # 0 THEN {SubSeq(s, i, e - 1)} \cup LoadNamesFrom(s, e)
              ELSE LoadNamesFrom(s, i + 1)

\* how an evaluation can end: a value that is not None, the value None, an
\* exception that "except Exception" catches, one that it does not
\* (SystemExit, KeyboardInterrupt: BaseException outside Exception)
Outcomes == {"value", "none", "exception", "base_exception"}

\* "if not invalid_names:" decides between the two returns
CanEvaluateAlways(invalid_names) == TRUE

CanEvaluate(invalid_names) == invalid_names = <<>>

NoType == [present |-> FALSE, of |-> <<>>]

\* pytype after the try statement; a value is named by the expression it is
\* the value of
PyType(o, expr) ==
    IF o = "value" THEN [present |-> TRUE, of |-> expr] ELSE NoType

\* errors after the try statement
Errors(errors, o) ==
    IF o = "exception" THEN Append(errors, "Exception") ELSE errors

\* ValidationResult(...)
ValidationResult(validated_type, pytype, errors, type_map, invalid_names) ==
    [validated_type |-> validated_type, pytype |-> pytype, errors |-> errors,
     type_map |-> type_map, invalid_names |-> invalid_names]

\* ValidationResult.__bool__ and is_valid
is_valid(r) == r.invalid_names = <<>> /\ r.pytype.present

\* ------------------------------------------------------------ bounds

\* the longest annotation, in pieces
MaxTokens == 4

\* the longest annotation of the tokenizer's own specification, in pieces
MaxTokLen == 5

IntName == <<"i","n","t">>

\* what the annotations are made of
Pieces == {IntName, Typing, <<Dot>>, <<",">>, <<Quote>>}

TokPieces ==
    {<<"x">>, <<"r">>, <<Dot>>, <<Quote>>, <<Quote, Quote, Quote>>,
     <<Apos>>, <<Backslash>>}

RECURSIVE Flatten(_)
Flatten(ps) == IF ps = <<>> THEN <<>> ELSE Head(ps) \o Flatten(Tail(ps))

Inputs == {Flatten(ps) : ps \in UNION {[1..n -> Pieces] : n \in 0..MaxTokens}}

TokInputs ==
    {Flatten(ps) : ps \in UNION {[1..n -> TokPieces] : n \in 1..MaxTokLen}}

\* the orders list(set(...)) can give a set
Orders(S) ==
    {f \in [1..Cardinality(S) -> S] : \A n \in S : \E k \in DOMAIN f : f[k] = n}

ToSet(seq) == {seq[k] : k \in 1..Len(seq)}

\* ------------------------------------------------------------ state

VARIABLES
    pc,             \* where the caller and validate_names are
    input,          \* the string TypeValidator is called with
    annotation,     \* self.annotation
    validated_type, \* self.validated_type
    all_types,      \* all_types of validate_names
    idx,            \* the position of "for type_ in all_types", from 1
    errors,         \* errors
    type_map,       \* type_map
    invalid_names,  \* invalid_names
    result,         \* <<the ValidationResult returned>>, <<>> before
    resolver,       \* the answers the resolver has given, by name
    eval_memo,      \* how each evaluated expression ended
    outcome,        \* how this call's eval ended, "not_run" before
    eval_loads,     \* the names this call's eval loaded by name
    first           \* <<the result of the first validation>> in the second

vars ==
    <<pc, input, annotation, validated_type, all_types, idx, errors,
      type_map, invalid_names, result, resolver, eval_memo, outcome,
      eval_loads, first>>

EmptyMap == [n \in {} |-> <<>>]

Init ==
    /\ pc = "new"
    /\ input \in Inputs
    /\ annotation = <<>>
    /\ validated_type = <<>>
    /\ all_types = <<>>
    /\ idx = 1
    /\ errors = <<>>
    /\ type_map = EmptyMap
    /\ invalid_names = <<>>
    /\ result = <<>>
    /\ resolver = EmptyMap
    /\ eval_memo = EmptyMap
    /\ outcome = "not_run"
    /\ eval_loads = {}
    /\ first = <<>>

\* TypeValidator(input): the assert, then the two assignments
Construct ==
    /\ pc = "new"
    /\ IF input = <<>>
       THEN /\ pc' = "raised"
            /\ UNCHANGED <<annotation, validated_type>>
       ELSE /\ pc' = "constructed"
            /\ annotation' = input
            /\ validated_type' = input
    /\ UNCHANGED <<input, all_types, idx, errors, type_map, invalid_names,
                   result, resolver, eval_memo, outcome, eval_loads, first>>

\* validate_names up to the loop: the three empty collections and
\* all_types = self.seperate_names(), in one of the orders of its set
SeperateNames ==
    /\ pc = "constructed"
    /\ \E order \in Orders(seperate_names(annotation)) : all_types' = order
    /\ idx' = 1
    /\ errors' = <<>>
    /\ type_map' = EmptyMap
    /\ invalid_names' = <<>>
    /\ pc' = "resolving"
    /\ UNCHANGED <<input, annotation, validated_type, result, resolver,
                   eval_memo, outcome, eval_loads, first>>

\* one iteration of "for type_ in all_types"
ResolveName ==
    /\ pc = "resolving"
    /\ idx <= Len(all_types)
    /\ LET type_ == all_types[idx] IN
       IF SkipsName(type_)
       THEN UNCHANGED <<resolver, invalid_names, type_map, validated_type>>
       ELSE \E a \in Answers :
              /\ type_ \in DOMAIN resolver => a = resolver[type_]
              /\ resolver' = [n \in DOMAIN resolver \cup {type_} |->
                                IF n = type_ THEN a ELSE resolver[n]]
              /\ invalid_names' = InsertInvalid(invalid_names, type_, a.valid)
              /\ type_map' = MapName(type_map, type_, a.info)
              /\ validated_type' = Rewrite(validated_type, type_, a.info)
    /\ idx' = idx + 1
    /\ UNCHANGED <<pc, input, annotation, all_types, errors, result,
                   eval_memo, outcome, eval_loads, first>>

\* "if not invalid_names:" with the eval and the first return
Evaluate ==
    /\ pc = "resolving"
    /\ idx > Len(all_types)
    /\ CanEvaluate(invalid_names)
    /\ \E o \in Outcomes :
         /\ validated_type \in DOMAIN eval_memo => o = eval_memo[validated_type]
         /\ eval_memo' = [e \in DOMAIN eval_memo \cup {validated_type} |->
                            IF e = validated_type THEN o ELSE eval_memo[e]]
         /\ outcome' = o
         /\ errors' = Errors(errors, o)
         /\ IF o = "base_exception"
            THEN pc' = "raised" /\ UNCHANGED result
            ELSE /\ pc' = "returned"
                 /\ result' = <<ValidationResult(validated_type,
                                   PyType(o, validated_type), Errors(errors, o),
                                   type_map, invalid_names)>>
    /\ eval_loads' = LoadNamesFrom(validated_type, 1)
    /\ UNCHANGED <<input, annotation, validated_type, all_types, idx,
                   type_map, invalid_names, resolver, first>>

\* the else branch: the second return
ReturnInvalid ==
    /\ pc = "resolving"
    /\ idx > Len(all_types)
    /\ ~CanEvaluate(invalid_names)
    /\ pc' = "returned"
    /\ result' = <<ValidationResult(validated_type, NoType, errors, type_map,
                                    invalid_names)>>
    /\ UNCHANGED <<input, annotation, validated_type, all_types, idx, errors,
                   type_map, invalid_names, resolver, eval_memo, outcome,
                   eval_loads, first>>

\* a caller that validates the validated_type of a valid result again, with a
\* new TypeValidator and the same namespaces
Revalidate ==
    /\ pc = "returned"
    /\ first = <<>>
    /\ is_valid(result[1])
    /\ first' = result
    /\ input' = result[1].validated_type
    /\ pc' = "new"
    /\ annotation' = <<>>
    /\ validated_type' = <<>>
    /\ all_types' = <<>>
    /\ idx' = 1
    /\ errors' = <<>>
    /\ type_map' = EmptyMap
    /\ invalid_names' = <<>>
    /\ result' = <<>>
    /\ outcome' = "not_run"
    /\ eval_loads' = {}
    /\ UNCHANGED <<resolver, eval_memo>>

Next ==
    \/ Construct
    \/ SeperateNames
    \/ ResolveName
    \/ Evaluate
    \/ ReturnInvalid
    \/ Revalidate

Spec == Init /\ [][Next]_vars

\* the tokenizer and the name splitter alone, over annotations with every
\* kind of literal
InitTok ==
    /\ pc = "constructed"
    /\ input \in TokInputs
    /\ annotation = input
    /\ validated_type = input
    /\ all_types = <<>>
    /\ idx = 1
    /\ errors = <<>>
    /\ type_map = EmptyMap
    /\ invalid_names = <<>>
    /\ result = <<>>
    /\ resolver = EmptyMap
    /\ eval_memo = EmptyMap
    /\ outcome = "not_run"
    /\ eval_loads = {}
    /\ first = <<>>

NextTok == SeperateNames

SpecTok == InitTok /\ [][NextTok]_vars

\* ------------------------------------------------------------ properties

Returned == pc = "returned"

LoopDone == pc = "resolving" /\ idx > Len(all_types)

\* the candidate names the resolver reported absent from every namespace
Absent == {n \in ToSet(all_types) \cap DOMAIN resolver : ~resolver[n].valid}

\* C1: the evaluator's environment binds the three namespace objects and
\* nothing else, so every name an evaluated expression loads by name is one
\* of the three, and any other value is reached only as an attribute of one
\* of them.  Stated for the evaluations that end without an exception, in
\* which every name the expression loads was found bound.
C1_OnlyNamespaceBindings ==
    outcome \in {"value", "none"} => eval_loads \subseteq GlobalsKeys

C3_PytypeIffSuccess ==
    Returned =>
        (result[1].pytype.present <=>
            /\ result[1].invalid_names = <<>>
            /\ outcome \in {"value", "none"}
            /\ result[1].errors = <<>>)

C5_NeverRaises == input # <<>> => pc # "raised"

\* C6: the iteration that finds a name invalid leaves the working
\* annotation string as it was: invalid names are not substituted.
C6_InvalidNotSubstituted ==
    [][(pc = "resolving" /\ idx' = idx + 1 /\ ~resolver'[all_types[idx]].valid)
          => validated_type' = validated_type]_vars

RECURSIVE RewriteAll(_, _, _)
RewriteAll(s, order, res) ==
    IF order = <<>> THEN s
    ELSE RewriteAll(Rewrite(s, Head(order), res[Head(order)].info),
                    Tail(order), res)

\* C7: when the loop has ended, the rewritten string is the one every order
\* of the candidate names gives, under the same resolver answers.  Stated
\* for the runs in which every candidate name is valid.
C7_OrderIndependent ==
    (LoopDone /\ Absent = {}) =>
        \A o \in Orders(ToSet(all_types)) :
            RewriteAll(annotation, o, resolver) = validated_type

\* every identifier of s is written namespace.name, outside any literal
RECURSIVE FullyQualifiedFrom(_, _)
FullyQualifiedFrom(s, i) ==
    IF i > Len(s) THEN TRUE
    ELSE IF IsWord(s[i])
         THEN LET e == WordEnd(s, i)
                  e2 == WordEnd(s, e + 1)
              IN  /\ SubSeq(s, i, e - 1) \in Namespaces
                  /\ At(s, e) = Dot
                  /\ IsIdentStart(At(s, e + 1))
                  /\ At(s, e2) # Dot
                  /\ FullyQualifiedFrom(s, e2)
         ELSE /\ s[i] \notin {Quote, Apos, Backslash, Dot}
              /\ FullyQualifiedFrom(s, i + 1)

FullyQualified(s) == s # <<>> /\ FullyQualifiedFrom(s, 1)

\* C8: an annotation whose names are all written namespace.name gives no
\* candidate name and comes back unchanged; validating the validated_type of
\* a valid result gives that string again, with the same pytype.
C8_Idempotent ==
    /\ (pc \in {"resolving", "returned"} /\ FullyQualified(annotation)) =>
         all_types = <<>> /\ validated_type = annotation
    /\ (Returned /\ FullyQualified(annotation)) =>
         result[1].validated_type = annotation
    /\ first # <<>> => pc # "raised"
    /\ (Returned /\ first # <<>>) =>
         /\ result[1].validated_type = first[1].validated_type
         /\ result[1].pytype = first[1].pytype

C8_Witness ==
    /\ Returned
    /\ first # <<>>
    /\ FullyQualified(annotation)
    /\ \E n \in DOMAIN first[1].type_map : first[1].type_map[n] # <<>>

HasAt(s, j, w) == j + Len(w) - 1 <= Len(s) /\ SubSeq(s, j, j + Len(w) - 1) = w

\* new is old with some of the tokenizer's candidate occurrences of name
\* written as repl, every other character as it was
RECURSIVE OnlyCandidatesRewritten(_, _, _, _, _, _)
OnlyCandidatesRewritten(old, i, new, j, name, repl) ==
    IF i > Len(old) THEN j > Len(new)
    ELSE LET l == LiteralAt(old, i) IN
         IF l # 0
         THEN /\ HasAt(new, j, SubSeq(old, i, l - 1))
              /\ OnlyCandidatesRewritten(old, l, new, j + (l - i), name, repl)
         ELSE LET e == IdentAt(old, i) IN
              IF e # 0 /\ SubSeq(old, i, e - 1) = name
              THEN \/ /\ HasAt(new, j, repl)
                      /\ OnlyCandidatesRewritten(old, e, new, j + Len(repl),
                                                 name, repl)
                   \/ /\ HasAt(new, j, name)
                      /\ OnlyCandidatesRewritten(old, e, new, j + Len(name),
                                                 name, repl)
              ELSE /\ At(new, j) = old[i]
                   /\ OnlyCandidatesRewritten(old, i + 1, new, j + 1, name, repl)

\* C9: an iteration of the loop rewrites the working string only at
\* occurrences of its name that the tokenizer accepts as a bare candidate
\* (not inside a larger identifier, no dot before, no dot after, not inside
\* a quoted literal) and leaves every other character unchanged.  Stated
\* for the iterations whose name is valid.
C9_RewritesOnlyCandidates ==
    [][(pc = "resolving" /\ idx' = idx + 1 /\ resolver'[all_types[idx]].valid) =>
          OnlyCandidatesRewritten(validated_type, 1, validated_type', 1,
              all_types[idx],
              EntityRepr(all_types[idx], resolver'[all_types[idx]].info))]_vars

\* C10: seperate_names returns the identifier tokens of the annotation, each
\* once, none lost by the pops during the iteration, none empty and none
\* made of several identifiers.
C10_SeperateNamesExact ==
    pc = "resolving" =>
        /\ ToSet(all_types) = ToSet(FindAll(annotation, 1)) \ {<<>>}
        /\ Len(all_types) = Cardinality(ToSet(all_types))
        /\ \A t \in ToSet(all_types) : t # <<>> /\ FindAll(t, 1) = <<t>>

C10_Witness ==
    /\ pc = "resolving"
    /\ Len(all_types) >= 2
    /\ Len(FindAll(annotation, 1)) >= 4
    /\ FindAll(annotation, 1)[1] = <<>>

====
